---- MODULE Spec2Model ----
(***************************************************************************)
(* Model of the two scripts of the repository.                             *)
(*                                                                         *)
(*   hip3.py       the HIP3 market data collector: get_hip3_markets,       *)
(*                 get_all_hip3_markets_combined, insert_market_data and   *)
(*                 the __main__ block;                                     *)
(*   web_query.py  the vault query service: query_vaults, get_stats,       *)
(*                 get_vault_history, get_cumulative_deposits and          *)
(*                 get_available_vaults.                                   *)
(*                                                                         *)
(* Numbers are integers: a price, a volume or an APY is a whole number of  *)
(* some small unit, and the arithmetic of the model is exact.              *)
(***************************************************************************)
EXTENDS Integers, Sequences, FiniteSets, TLC

VARIABLES
    call,            \* one call of get_hip3_markets: position, arguments, response, return value
    runs,            \* per collector process: position and locals of __main__
    market_data,     \* the committed rows of table market_data, in id order
    db_lock,         \* the process holding SQLite's write lock on hip3_markets.db, or NoRun
    clock,           \* the wall clock read by datetime.now()
    commit_order,    \* history: the processes whose batch was committed, in commit order
    vault_snapshots, \* the rows of table vault_snapshots, in id order
    query,           \* one request to /api/query: position, parameters, returned rows
    reply            \* one request to another endpoint of the service: endpoint, parameters, status, body

vars == <<call, runs, market_data, db_lock, clock, commit_order, vault_snapshots, query, reply>>

collectorVars == <<call, runs, market_data, db_lock, clock, commit_order>>
queryVars == <<vault_snapshots, query, reply>>

(***************************************************************************)
(* Bounds of the model.                                                    *)
(***************************************************************************)
MaxUniverse == 2      \* longest universe list of a response, in the single-call specification
MaxTime == 2          \* last value of the wall clock
MaxSnapshots == 3     \* most rows of vault_snapshots

\* the elements of a sequence
Range(s) == {s[i] : i \in DOMAIN s}

(***************************************************************************)
(* JSON values of a context field, as json.loads returns them.             *)
(*   missing   the key is absent                                           *)
(*   null      None                                                        *)
(*   emptystr  ""                                                          *)
(*   numstr    a string that is the decimal numeral of n                   *)
(*   badstr    a string that is no numeral                                 *)
(*   num       the JSON number n                                           *)
(*   list      a non-empty array                                           *)
(***************************************************************************)
Missing == [t |-> "missing", n |-> 0]
JNull == [t |-> "null", n |-> 0]
JEmpty == [t |-> "emptystr", n |-> 0]
JStr(n) == [t |-> "numstr", n |-> n]
JBad == [t |-> "badstr", n |-> 0]
JNum(n) == [t |-> "num", n |-> n]
JList == [t |-> "list", n |-> 0]

\* market_data.get(key, '0')
DictGet(raw) == IF raw.t = "missing" THEN JStr(0) ELSE raw

\* Python truth value of x in `float(x) if x else 0`
Truthy(raw) == \/ raw.t \in {"numstr", "badstr", "list"}
               \/ raw.t = "num" /\ raw.n # 0

\* float(x) raises ValueError on a non-numeric string and TypeError on a list
FloatRaises(raw) == raw.t \in {"badstr", "list"}

\* `float(x) if x else 0`, where it does not raise
ParseFloat(raw) == IF Truthy(raw) THEN raw.n ELSE 0

ParseRaises(raw) == Truthy(raw) /\ FloatRaises(raw)

(***************************************************************************)
(* A context is a JSON object with the four fields, or some other JSON     *)
(* value (obj = FALSE). A descriptor is a JSON object, with or without a   *)
(* name.                                                                   *)
(***************************************************************************)
Context(m, v, o, f) ==
    [obj |-> TRUE, markPx |-> m, dayNtlVlm |-> v, openInterest |-> o, funding |-> f]
NotAnObject ==
    [obj |-> FALSE, markPx |-> Missing, dayNtlVlm |-> Missing,
     openInterest |-> Missing, funding |-> Missing]

Named(s) == [has_name |-> TRUE, name |-> s]
Nameless == [has_name |-> FALSE, name |-> ""]

\* market.get("name", "N/A")
CoinName(market) == IF market.has_name THEN market.name ELSE "N/A"

mark_px_float(ctx) == ParseFloat(DictGet(ctx.markPx))
oi_contracts_float(ctx) == ParseFloat(DictGet(ctx.openInterest))
day_volume_float(ctx) == ParseFloat(DictGet(ctx.dayNtlVlm))
funding_float(ctx) == ParseFloat(DictGet(ctx.funding))

\* one of the four float() calls of the inner try raises ValueError or TypeError
RowRaises(ctx) ==
    \/ ParseRaises(DictGet(ctx.markPx))
    \/ ParseRaises(DictGet(ctx.openInterest))
    \/ ParseRaises(DictGet(ctx.dayNtlVlm))
    \/ ParseRaises(DictGet(ctx.funding))

\* a faulty variant of VolumeActive: zero volume is kept
VolumeNonNegative(v) == v >= 0

\* if day_volume_float > 0
VolumeActive(v) == v > 0

\* the dict appended to active_markets
MarketRow(dex, quote, market, ctx) ==
    [markPx |-> mark_px_float(ctx),
     dayNtlVlm |-> day_volume_float(ctx),
     funding |-> funding_float(ctx),
     market |-> CoinName(market), dex |-> dex, quote |-> quote,
     openInterestUSD |-> oi_contracts_float(ctx) * mark_px_float(ctx)]

(***************************************************************************)
(* The for loop of get_hip3_markets from index i on, with active_markets   *)
(* = acc. The result says whether an exception left the loop (IndexError   *)
(* of asset_contexts[i], AttributeError of market_data.get) and the list   *)
(* built.                                                                  *)
(***************************************************************************)
RECURSIVE MarketLoop(_, _, _, _, _, _)
MarketLoop(dex, quote, universe, asset_contexts, i, acc) ==
    IF i > Len(universe) THEN [raised |-> FALSE, rows |-> acc]
    ELSE IF i > Len(asset_contexts) THEN [raised |-> TRUE, rows |-> acc]
    ELSE IF ~asset_contexts[i].obj THEN [raised |-> TRUE, rows |-> acc]
    ELSE LET ctx == asset_contexts[i]
             keep == ~RowRaises(ctx) /\ VolumeActive(day_volume_float(ctx))
         IN MarketLoop(dex, quote, universe, asset_contexts, i + 1,
                       IF keep THEN Append(acc, MarketRow(dex, quote, universe[i], ctx))
                       ELSE acc)

\* a faulty variant of OuterExcept: the handler lets the exception go on
OuterReraise(rows) == [raised |-> TRUE, rows |-> <<>>]

\* except Exception as e: ... return []
OuterExcept(rows) == [raised |-> FALSE, rows |-> <<>>]

(***************************************************************************)
(* A response of the endpoint.                                             *)
(*   http_error  requests.post raises                                      *)
(*   bad_status  raise_for_status raises                                   *)
(*   bad_json    the body is no JSON, or no [metadata, contexts] pair      *)
(*   ok          data[0] is an object and data[1] a list                   *)
(***************************************************************************)
Response(kind, universe, asset_contexts) ==
    [universe |-> universe, asset_contexts |-> asset_contexts, kind |-> kind]

\* get_hip3_markets(dex, quote_currency) on the response it receives
get_hip3_markets(dex, quote_currency, data) ==
    IF data.kind # "ok" THEN OuterExcept(<<>>)
    ELSE LET loop == MarketLoop(dex, quote_currency, data.universe,
                                data.asset_contexts, 1, <<>>)
         IN IF loop.raised THEN OuterExcept(loop.rows)
            ELSE [raised |-> FALSE, rows |-> loop.rows]

dex_configs ==
    << [name |-> "xyz", quote |-> "USDC"],
       [name |-> "flx", quote |-> "USDH"],
       [name |-> "vntl", quote |-> "USDH"] >>

(***************************************************************************)
(* get_all_hip3_markets_combined: the sort and the report.                 *)
(***************************************************************************)
\* a faulty variant of SortKey: ascending
SortKeyAscending(m) == m.dayNtlVlm

\* key=lambda x: -x['dayNtlVlm']
SortKey(m) == -m.dayNtlVlm

\* list.sort is stable: x goes behind every element whose key is <= its own
RECURSIVE InsertStable(_, _)
InsertStable(s, x) ==
    IF s = <<>> THEN <<x>>
    ELSE IF SortKey(Head(s)) <= SortKey(x)
         THEN <<Head(s)>> \o InsertStable(Tail(s), x)
         ELSE <<x>> \o s

RECURSIVE SortMarkets(_)
SortMarkets(ms) ==
    IF ms = <<>> THEN <<>>
    ELSE InsertStable(SortMarkets(SubSeq(ms, 1, Len(ms) - 1)), ms[Len(ms)])

RECURSIVE SumOf(_)
SumOf(s) == IF s = <<>> THEN 0 ELSE Head(s) + SumOf(Tail(s))

\* sum(m['dayNtlVlm'] for m in ms), sum(m['openInterestUSD'] for m in ms)
TotalVolume(ms) == SumOf([i \in DOMAIN ms |-> ms[i].dayNtlVlm])
TotalOI(ms) == SumOf([i \in DOMAIN ms |-> ms[i].openInterestUSD])

\* a faulty variant of DexMarkets: the rows are picked by quote currency
QuoteMarkets(ms, config) == SelectSeq(ms, LAMBDA m : m.quote = config.quote)

\* [m for m in all_markets if m['dex'] == dex_name]
DexMarkets(ms, config) == SelectSeq(ms, LAMBDA m : m.dex = config.name)

DexSummary(ms, config) ==
    LET dex_markets == DexMarkets(ms, config)
    IN [dex |-> config.name, quote |-> config.quote,
        active_markets |-> Len(dex_markets),
        total_volume |-> TotalVolume(dex_markets),
        total_oi |-> TotalOI(dex_markets)]

\* what the function prints: the overall totals and the summary by dex
Report(ms) ==
    [total_volume |-> TotalVolume(ms),
     total_oi |-> TotalOI(ms),
     total_markets |-> Len(ms),
     by_dex |-> [k \in DOMAIN dex_configs |-> DexSummary(ms, dex_configs[k])]]

NoReport == [total_volume |-> 0, total_oi |-> 0, total_markets |-> 0, by_dex |-> <<>>]

(***************************************************************************)
(* insert_market_data.                                                     *)
(***************************************************************************)
\* the row one INSERT adds to market_data; id is AUTOINCREMENT
StoreRow(id, timestamp, m) ==
    [market |-> m.market, dex |-> m.dex, id |-> id, timestamp |-> timestamp,
     quote_asset |-> m.quote, mark_price |-> m.markPx, volume_24h |-> m.dayNtlVlm,
     open_interest |-> m.openInterestUSD, funding_rate |-> m.funding]

\* a faulty variant of CommitRows: the batch replaces the table
ReplaceRows(store, pending) == pending

\* conn.commit(): the rows of the transaction become part of the table
CommitRows(store, pending) == store \o pending

\* a faulty variant of Rollback: the rows executed so far are committed
CommitPartial(store, pending) == store \o pending

\* an exception leaves insert_market_data before conn.commit(): the
\* connection goes away with its transaction open and SQLite rolls it back
Rollback(store, pending) == store

\* cursor.rowcount after the loop: that of the last INSERT; -1 if none ran
RowCount(n) == IF n = 0 THEN -1 ELSE 1

(***************************************************************************)
(* The collector processes.                                                *)
(***************************************************************************)
Runs == {1, 2}
NoRun == 0

Off == [timestamp |-> 0, pending |-> <<>>, pc |-> "off", fetched |-> <<>>,
        all_markets |-> <<>>, report |-> NoReport, cursor |-> 0, rows_inserted |-> 0]
Fresh == [Off EXCEPT !.pc = "fetch"]

\* one iteration of `for config in dex_configs`: the request is answered by
\* data, and the list returned extends all_markets
FetchSource(r, data) ==
    /\ runs[r].pc = "fetch"
    /\ LET k == Len(runs[r].fetched) + 1
           config == dex_configs[k]
           ret == get_hip3_markets(config.name, config.quote, data)
       IN runs' = [runs EXCEPT ![r] =
              IF ret.raised
              THEN [@ EXCEPT !.pc = "aborted", !.fetched = Append(@, data)]
              ELSE [@ EXCEPT !.pc = IF k = Len(dex_configs) THEN "report" ELSE "fetch",
                             !.fetched = Append(@, data),
                             !.all_markets = @ \o ret.rows]]
    /\ UNCHANGED <<call, market_data, db_lock, clock, commit_order, queryVars>>

\* the rest of get_all_hip3_markets_combined: sort, print, return
SortAndReport(r) ==
    /\ runs[r].pc = "report"
    /\ LET sorted == SortMarkets(runs[r].all_markets)
       IN runs' = [runs EXCEPT ![r] = [@ EXCEPT !.pc = "collected",
                                                !.all_markets = sorted,
                                                !.report = Report(sorted)]]
    /\ UNCHANGED <<call, market_data, db_lock, clock, commit_order, queryVars>>

\* __main__: `if markets_data:` is false
NothingToInsert(r) ==
    /\ runs[r].pc = "collected"
    /\ runs[r].all_markets = <<>>
    /\ runs' = [runs EXCEPT ![r] = [@ EXCEPT !.pc = "done"]]
    /\ UNCHANGED <<call, market_data, db_lock, clock, commit_order, queryVars>>

\* insert_market_data up to the loop: connect, timestamp = datetime.now()
BeginInsert(r) ==
    /\ runs[r].pc = "collected"
    /\ runs[r].all_markets # <<>>
    /\ runs' = [runs EXCEPT ![r] = [@ EXCEPT !.pc = "execute", !.timestamp = clock]]
    /\ UNCHANGED <<call, market_data, db_lock, clock, commit_order, queryVars>>

\* one cursor.execute(INSERT ...): the first one opens the transaction and
\* takes the write lock, which no other process may hold
Execute(r) ==
    /\ runs[r].pc = "execute"
    /\ runs[r].cursor < Len(runs[r].all_markets)
    /\ db_lock \in {NoRun, r}
    /\ LET id == Len(market_data) + Len(runs[r].pending) + 1
           row == StoreRow(id, runs[r].timestamp, runs[r].all_markets[runs[r].cursor + 1])
       IN runs' = [runs EXCEPT ![r] = [@ EXCEPT !.pending = Append(@, row),
                                                !.cursor = @ + 1]]
    /\ db_lock' = r
    /\ UNCHANGED <<call, market_data, clock, commit_order, queryVars>>

\* an execute or the commit raises (the lock is busy for too long, the disk
\* fails): the exception ends the process, nothing is committed
InsertFails(r) ==
    /\ runs[r].pc = "execute"
    /\ market_data' = Rollback(market_data, runs[r].pending)
    /\ runs' = [runs EXCEPT ![r] = [@ EXCEPT !.pc = "failed", !.pending = <<>>]]
    /\ db_lock' = IF db_lock = r THEN NoRun ELSE db_lock
    /\ UNCHANGED <<call, clock, commit_order, queryVars>>

\* conn.commit(); rows_inserted = cursor.rowcount; conn.close(); return
Commit(r) ==
    /\ runs[r].pc = "execute"
    /\ runs[r].cursor = Len(runs[r].all_markets)
    /\ market_data' = CommitRows(market_data, runs[r].pending)
    /\ commit_order' = Append(commit_order, r)
    /\ runs' = [runs EXCEPT ![r] = [@ EXCEPT !.pc = "done", !.pending = <<>>,
                                             !.rows_inserted = RowCount(runs[r].cursor)]]
    /\ db_lock' = NoRun
    /\ UNCHANGED <<call, clock, queryVars>>

\* time passes
Tick ==
    /\ clock < MaxTime
    /\ clock' = clock + 1
    /\ UNCHANGED <<call, runs, market_data, db_lock, commit_order, queryVars>>

(***************************************************************************)
(* Responses.                                                              *)
(***************************************************************************)
MarketNames == <<"M1", "M2", "M3", "M4">>

HttpError == Response("http_error", <<>>, <<>>)
BadStatus == Response("bad_status", <<>>, <<>>)
BadJson == Response("bad_json", <<>>, <<>>)

\* the universe of n named markets
Universe(n) == [i \in 1..n |-> Named(MarketNames[i])]

\* the field values of the contexts of the single-call specification
MarkVals == {Missing, JStr(2), JBad}
VolVals == {Missing, JStr(0), JStr(-1), JStr(1), JNum(2)}
OiVals == {JStr(3), JList}
FundVals == {JStr(1), JNull}

Contexts ==
    {NotAnObject} \cup
    {Context(m, v, o, f) : m \in MarkVals, v \in VolVals, o \in OiVals, f \in FundVals}

\* the responses of the single-call specification: a failure, or a universe
\* of n markets with a context for each, or for each but the last
Failures == {HttpError, BadStatus, BadJson}
\* the lists of contexts answering a universe of n markets
FullContexts(n) == [1..n -> Contexts]
ShortContexts(n) == [1..(n - 1) -> Contexts]

Plain(v) == Context(JStr(2), v, JStr(3), JStr(1))

\* three markets, the second without volume
ThreeMarkets == Response("ok", Universe(3), <<Plain(JStr(2)), Plain(JStr(0)), Plain(JStr(1))>>)
\* one market, without a name
OneMarket == Response("ok", <<Nameless>>, <<Plain(JStr(1))>>)
\* two markets, the context of the second is null
BrokenContext == Response("ok", Universe(2), <<Plain(JStr(1)), NotAnObject>>)

\* the responses of the specification of one collector run
CollectResponses == {HttpError, BadStatus, BadJson, BrokenContext, ThreeMarkets, OneMarket}
\* the responses of the specification of two collector runs
StoreResponses == {HttpError, ThreeMarkets, OneMarket}

(***************************************************************************)
(* One call of get_hip3_markets.                                           *)
(***************************************************************************)
NoCall == [dex |-> "", quote |-> "", data |-> HttpError, pc |-> "idle", ret |-> <<>>]

\* the caller passes a config, requests.post is answered by data
CallGetMarkets(config, data) ==
    /\ call' = [dex |-> config.name, quote |-> config.quote, data |-> data,
                pc |-> "called", ret |-> <<>>]
    /\ UNCHANGED <<runs, market_data, db_lock, clock, commit_order, queryVars>>

\* the function runs to its return
ReturnMarkets ==
    /\ call.pc = "called"
    /\ LET ret == get_hip3_markets(call.dex, call.quote, call.data)
       IN call' = [call EXCEPT !.pc = IF ret.raised THEN "raised" ELSE "returned",
                               !.ret = ret.rows]
    /\ UNCHANGED <<runs, market_data, db_lock, clock, commit_order, queryVars>>

(***************************************************************************)
(* web_query.py: the table vault_snapshots and query_vaults.               *)
(*                                                                         *)
(* A nullable number is a record: Null, or the fraction num/den. A column  *)
(* value n is n/1; AVG gives sum/count.                                    *)
(***************************************************************************)
Null == [null |-> TRUE, num |-> 0, den |-> 1]
Num(n) == [null |-> FALSE, num |-> n, den |-> 1]

\* a < b for two numbers that are not NULL
NumLess(a, b) == a.num * b.den < b.num * a.den

\* datetime('now'), in days
Now == 10

\* a deposit_token that is NULL
NoToken == ""

\* a row of vault_snapshots without a deposit_token (total_deposits, which
\* the service only copies, is left out)
Snapshot(id, timestamp, platform, vault_name, vault_type, deposit_amount, apy_percentage) ==
    [id |-> id, timestamp |-> timestamp, platform |-> platform, vault_name |-> vault_name,
     vault_type |-> vault_type, deposit_amount |-> deposit_amount,
     apy_percentage |-> apy_percentage, deposit_token |-> NoToken]

\* the body of a request: data.get(...) of each parameter. An absent
\* platforms is [], an absent vault_type is None, written "" (both are
\* ignored alike), an absent number is Null
Request(platforms, vault_type, sort_by, sort_order, min_apy, max_apy, days_back, min_deposits) ==
    [vault_type |-> vault_type, platforms |-> platforms, sort_by |-> sort_by,
     sort_order |-> sort_order, min_apy |-> min_apy, max_apy |-> max_apy,
     days_back |-> days_back, min_deposits |-> min_deposits]

\* if days_back and days_back != ''
HasDateCondition(days_back) == ~days_back.null /\ days_back.num # 0

\* WHERE 1=1 {date_condition}
DateCondition(row, days_back) ==
    HasDateCondition(days_back) => row.timestamp >= Now - days_back.num

\* a faulty variant of AvgCondition: the average runs over all snapshots
AvgAllRows(row, days_back) == TRUE

\* the WHERE clause of the avg_apy subquery
AvgCondition(row, days_back) == DateCondition(row, days_back)

Max(S) == CHOOSE x \in S : \A y \in S : y <= x
Min(S) == CHOOSE x \in S : \A y \in S : x <= y

\* a faulty variant of GroupId: the oldest row of the group
MinId(ids) == Min(ids)

\* SELECT MAX(id) ... GROUP BY platform, vault_name
GroupId(ids) == Max(ids)

SameVault(a, b) == a.platform = b.platform /\ a.vault_name = b.vault_name

\* the ids the subquery of latest_snapshots returns
LatestIds(table, days_back) ==
    LET rows == {r \in Range(table) : DateCondition(r, days_back)}
    IN { GroupId({q.id : q \in {q \in rows : SameVault(q, r)}}) : r \in rows }

RECURSIVE SumApy(_)
SumApy(S) == IF S = {} THEN 0
             ELSE LET x == CHOOSE x \in S : TRUE
                  IN x.apy_percentage.num + SumApy(S \ {x})

\* AVG(apy_percentage) over a group: NULL values are skipped, and the
\* average of none is NULL
Avg(group) ==
    LET known == {r \in group : ~r.apy_percentage.null}
    IN IF known = {} THEN Null
       ELSE [null |-> FALSE, num |-> SumApy(known), den |-> Cardinality(known)]

\* the row of the join for a row ls of latest_snapshots: LEFT JOIN avg_apy
JoinedRow(table, days_back, ls) ==
    LET group == {r \in Range(table) : AvgCondition(r, days_back) /\ SameVault(r, ls)}
    IN [timestamp |-> ls.timestamp,
        platform |-> ls.platform, vault_name |-> ls.vault_name,
        vault_type |-> ls.vault_type, deposit_amount |-> ls.deposit_amount,
        latest_apy |-> ls.apy_percentage,
        average_apy |-> IF group = {} THEN Null ELSE Avg(group)]

\* column >= ? and column <= ?: a NULL column fails the comparison
AtLeast(col, bound) == ~col.null /\ ~NumLess(col, bound)
AtMost(col, bound) == ~col.null /\ ~NumLess(bound, col)

\* a faulty variant of Conditions: a bound of 0 is taken for no bound
ConditionsTruthy(req, row) ==
    /\ req.platforms # {} => row.platform \in req.platforms
    /\ req.vault_type # "" => row.vault_type = req.vault_type
    /\ (~req.min_apy.null /\ req.min_apy.num # 0) => AtLeast(row.latest_apy, req.min_apy)
    /\ (~req.max_apy.null /\ req.max_apy.num # 0) => AtMost(row.latest_apy, req.max_apy)
    /\ (~req.min_deposits.null /\ req.min_deposits.num # 0)
           => AtLeast(row.deposit_amount, req.min_deposits)

\* the conditions appended to the WHERE clause
Conditions(req, row) ==
    /\ req.platforms # {} => row.platform \in req.platforms
    /\ req.vault_type # "" => row.vault_type = req.vault_type
    /\ ~req.min_apy.null => AtLeast(row.latest_apy, req.min_apy)
    /\ ~req.max_apy.null => AtMost(row.latest_apy, req.max_apy)
    /\ ~req.min_deposits.null => AtLeast(row.deposit_amount, req.min_deposits)

\* the rows the SELECT yields, before ORDER BY
Selected(table, req) ==
    { row \in { JoinedRow(table, req.days_back, ls) :
                ls \in {r \in Range(table) : r.id \in LatestIds(table, req.days_back)} } :
      Conditions(req, row) }

\* the BINARY collation on the vault names of the model
NameRank(name) == IF name = "a" THEN 1 ELSE IF name = "b" THEN 2 ELSE 3

\* SQLite's order of two values of a numeric column: NULL is less than any
\* number
ColumnLess(a, b) == IF a.null THEN ~b.null ELSE ~b.null /\ NumLess(a, b)

\* row a must come before row b under the ORDER BY clause of the request
Before(req, a, b) ==
    IF req.sort_by = "apy"
    THEN IF req.sort_order = "asc" THEN ColumnLess(a.latest_apy, b.latest_apy)
         ELSE ColumnLess(b.latest_apy, a.latest_apy)
    ELSE IF req.sort_by = "avg_apy"
    THEN IF req.sort_order = "asc" THEN ColumnLess(a.average_apy, b.average_apy)
         ELSE ColumnLess(b.average_apy, a.average_apy)
    ELSE IF req.sort_by = "deposits"
    THEN IF req.sort_order = "asc" THEN ColumnLess(a.deposit_amount, b.deposit_amount)
         ELSE ColumnLess(b.deposit_amount, a.deposit_amount)
    ELSE NameRank(a.vault_name) < NameRank(b.vault_name)

\* the lists cursor.fetchall() may return: the selected rows in an order
\* that obeys ORDER BY (rows with equal keys come in any order)
Fetchall(table, req) ==
    LET rows == Selected(table, req)
        n == Cardinality(rows)
    IN { f \in [1..n -> rows] :
           /\ \A i, j \in 1..n : i # j => f[i] # f[j]
           /\ \A i, j \in 1..n : i < j => ~Before(req, f[j], f[i]) }

NoRequest == Request({}, "", "apy", "desc", Null, Null, Null, Null)
NoQuery == [pc |-> "idle", req |-> NoRequest, vaults |-> <<>>]

\* the writer of vault_snapshots (not part of the repository) adds a row
AppendSnapshot(timestamp, vault, vault_type, deposit_amount, apy_percentage) ==
    /\ query.pc = "idle"
    /\ reply.endpoint = "none"
    /\ Len(vault_snapshots) < MaxSnapshots
    /\ vault_snapshots' = Append(vault_snapshots,
           Snapshot(Len(vault_snapshots) + 1, timestamp, vault[1], vault[2],
                    vault_type, deposit_amount, apy_percentage))
    /\ UNCHANGED <<query, reply, collectorVars>>

\* the writer adds a row that has a deposit_token
AppendTokenSnapshot(timestamp, vault, vault_type, deposit_token, deposit_amount, apy_percentage) ==
    /\ query.pc = "idle"
    /\ reply.endpoint = "none"
    /\ Len(vault_snapshots) < MaxSnapshots
    /\ vault_snapshots' = Append(vault_snapshots,
           [Snapshot(Len(vault_snapshots) + 1, timestamp, vault[1], vault[2],
                     vault_type, deposit_amount, apy_percentage)
               EXCEPT !.deposit_token = deposit_token])
    /\ UNCHANGED <<query, reply, collectorVars>>

\* POST /api/query with body req
query_vaults(req) ==
    /\ query.pc = "idle"
    /\ reply.endpoint = "none"
    /\ \E vaults \in Fetchall(vault_snapshots, req) :
           query' = [pc |-> "answered", req |-> req, vaults |-> vaults]
    /\ UNCHANGED <<vault_snapshots, reply, collectorVars>>

(***************************************************************************)
(* web_query.py: the other endpoints. A reply is the endpoint, the body of *)
(* the request, the HTTP status, whether a query ran, and the JSON body.   *)
(***************************************************************************)
NoReply == [req |-> NoRequest, endpoint |-> "none", status |-> 0, queried |-> FALSE,
            body |-> <<>>]

\* the body of a request to /api/stats: platforms, vault_type, days_back and
\* min_deposits, read as query_vaults reads them
StatsRequest(platforms, vault_type, days_back, min_deposits) ==
    Request(platforms, vault_type, "apy", "desc", Null, Null, days_back, min_deposits)

\* cursor.fetchall() of get_stats: the query of query_vaults without APY
\* bounds and without ORDER BY; the rows are used in no order
StatsRows(table, req) == Selected(table, req)

\* the sum and the quotient of numbers that are not NULL, as fractions
FracAdd(a, b) == [null |-> FALSE, num |-> a.num * b.den + b.num * a.den, den |-> a.den * b.den]
FracDiv(a, k) == [null |-> FALSE, num |-> a.num, den |-> a.den * k]
FracEq(a, b) == a.num * b.den = b.num * a.den

\* sum(row[col] for row in rows)
RECURSIVE SumColumn(_, _)
SumColumn(rows, col) ==
    IF rows = {} THEN Num(0)
    ELSE LET x == CHOOSE x \in rows : TRUE
         IN FracAdd(x[col], SumColumn(rows \ {x}, col))

\* [... for row in results if row[col] is not None]
Known(rows, col) == {r \in rows : ~r[col].null}

\* [... for r in results if r[col]]: None and 0 are false
TruthyRows(rows, col) == {r \in rows : ~r[col].null /\ r[col].num # 0}

\* sum(xs) / len(xs) if xs else 0
MeanOf(rows, col) ==
    IF rows = {} THEN Num(0) ELSE FracDiv(SumColumn(rows, col), Cardinality(rows))

\* sum(xs) if xs else 0
TotalOf(rows, col) == IF rows = {} THEN Num(0) ELSE SumColumn(rows, col)

\* max(xs) if xs else 0, min(xs) if xs else 0
MaxOf(rows, col) == IF rows = {} THEN Num(0) ELSE Num(Max({r[col].num : r \in rows}))
MinOf(rows, col) == IF rows = {} THEN Num(0) ELSE Num(Min({r[col].num : r \in rows}))

\* the dict stats (the _formatted entries, strings of the same values, are
\* left out)
OverallStats(results) ==
    LET latest == Known(results, "latest_apy")
        period == Known(results, "average_apy")
        deposits == Known(results, "deposit_amount")
    IN [min_apy |-> MinOf(latest, "latest_apy"),
        max_apy |-> MaxOf(latest, "latest_apy"),
        total_vaults |-> Cardinality(results),
        avg_latest_apy |-> MeanOf(latest, "latest_apy"),
        avg_period_apy |-> MeanOf(period, "average_apy"),
        total_tvl |-> TotalOf(deposits, "deposit_amount"),
        avg_tvl |-> MeanOf(deposits, "deposit_amount")]

\* the entry of platform_stats or type_stats for the rows of one group
GroupStats(group_results) ==
    LET latest == TruthyRows(group_results, "latest_apy")
        period == TruthyRows(group_results, "average_apy")
        deposits == TruthyRows(group_results, "deposit_amount")
    IN [avg_latest_apy |-> MeanOf(latest, "latest_apy"),
        avg_period_apy |-> MeanOf(period, "average_apy"),
        total_tvl |-> TotalOf(deposits, "deposit_amount"),
        count |-> Cardinality(group_results)]

platform_stats(results) ==
    [platform \in {row.platform : row \in results} |->
        GroupStats({r \in results : r.platform = platform})]

type_stats(results) ==
    [vault_type_stat \in {row.vault_type : row \in results} |->
        GroupStats({r \in results : r.vault_type = vault_type_stat})]

\* POST /api/stats with body req
get_stats(req) ==
    /\ query.pc = "idle"
    /\ reply.endpoint = "none"
    /\ LET results == StatsRows(vault_snapshots, req)
       IN reply' = [req |-> req, endpoint |-> "stats", status |-> 200, queried |-> TRUE,
                    body |-> [overall |-> OverallStats(results),
                              by_platform |-> platform_stats(results),
                              by_type |-> type_stats(results)]]
    /\ UNCHANGED <<vault_snapshots, query, collectorVars>>

\* data.get('days_back', 30)
DaysBackOr30(raw) == IF raw.t = "missing" THEN JNum(30) ELSE raw

\* if days_back and days_back != '': AND datetime(timestamp) >=
\* datetime('now', '-' || int(days_back) || ' days')
InLastDays(row, days_back) == Truthy(days_back) => row.timestamp >= Now - days_back.n

\* the body of a request to /api/vault_history; "" is a platform or a
\* vault_name that is missing, None or empty; days_back is a JSON value
HistoryRequest(platform, vault_name, days_back) ==
    [platform |-> platform, vault_name |-> vault_name, days_back |-> days_back]

\* the lists fetchall() may return under ORDER BY timestamp ASC
ByTimestamp(rows) ==
    LET n == Cardinality(rows)
    IN { f \in [1..n -> rows] :
           /\ \A i, j \in 1..n : i # j => f[i] # f[j]
           /\ \A i, j \in 1..n : i < j => f[i].timestamp <= f[j].timestamp }

\* the dict appended to history
HistoryEntry(row) ==
    [timestamp |-> row.timestamp, apy |-> row.apy_percentage, deposits |-> row.deposit_amount]

\* POST /api/vault_history with body req
get_vault_history(req) ==
    /\ query.pc = "idle"
    /\ reply.endpoint = "none"
    /\ IF req.platform = "" \/ req.vault_name = ""
       THEN reply' = [req |-> req, endpoint |-> "vault_history", status |-> 400,
                      queried |-> FALSE,
                      body |-> [error |-> "Platform and vault_name required"]]
       ELSE LET rows == {r \in Range(vault_snapshots) :
                            /\ r.platform = req.platform
                            /\ r.vault_name = req.vault_name
                            /\ InLastDays(r, DaysBackOr30(req.days_back))}
            IN \E results \in ByTimestamp(rows) :
                   reply' = [req |-> req, endpoint |-> "vault_history", status |-> 200,
                             queried |-> TRUE,
                             body |-> [platform |-> req.platform,
                                       vault_name |-> req.vault_name,
                                       avg_apy |-> MeanOf(Known(rows, "apy_percentage"),
                                                          "apy_percentage"),
                                       history |-> [i \in DOMAIN results |->
                                                       HistoryEntry(results[i])]]]
    /\ UNCHANGED <<vault_snapshots, query, collectorVars>>

\* the body of a request to /api/cumulative_deposits; "" is a vault_type or
\* a deposit_token that is missing, None or empty
CumulativeRequest(platforms, vault_type, deposit_token, days_back) ==
    [vault_type |-> vault_type, deposit_token |-> deposit_token, platforms |-> platforms,
     days_back |-> days_back]

\* the WHERE clause of get_cumulative_deposits
CumulativeRows(table, req) ==
    {r \in Range(table) :
        /\ req.platforms # {} => r.platform \in req.platforms
        /\ req.vault_type # "" => r.vault_type = req.vault_type
        /\ req.deposit_token # "" => r.deposit_token = req.deposit_token
        /\ InLastDays(r, DaysBackOr30(req.days_back))}

\* SUM(deposit_amount) of a group: NULL when no value of it is known
SumDeposits(group) ==
    IF Known(group, "deposit_amount") = {} THEN Null
    ELSE SumColumn(Known(group, "deposit_amount"), "deposit_amount")

\* the numbers of a set in ascending order
RECURSIVE Ascending(_)
Ascending(S) == IF S = {} THEN <<>> ELSE <<Min(S)>> \o Ascending(S \ {Min(S)})

\* GROUP BY timestamp ORDER BY timestamp ASC, as the list history
CumulativeHistory(rows) ==
    LET stamps == Ascending({r.timestamp : r \in rows})
    IN [i \in DOMAIN stamps |->
           [timestamp |-> stamps[i],
            total_deposits |-> SumDeposits({r \in rows : r.timestamp = stamps[i]})]]

\* the list deposit_values: the totals that are not None
DepositValues(history) ==
    LET known == SelectSeq(history, LAMBDA h : ~h.total_deposits.null)
    IN [i \in DOMAIN known |-> known[i].total_deposits.num]

\* POST /api/cumulative_deposits with body req
get_cumulative_deposits(req) ==
    /\ query.pc = "idle"
    /\ reply.endpoint = "none"
    /\ LET history == CumulativeHistory(CumulativeRows(vault_snapshots, req))
           deposit_values == DepositValues(history)
           some == deposit_values # <<>>
       IN reply' = [req |-> req, endpoint |-> "cumulative_deposits", status |-> 200,
                    queried |-> TRUE,
                    body |-> [min_deposits |-> IF some THEN Num(Min(Range(deposit_values)))
                                               ELSE Num(0),
                              history |-> history,
                              avg_deposits |-> IF some
                                  THEN [null |-> FALSE, num |-> SumOf(deposit_values),
                                        den |-> Len(deposit_values)]
                                  ELSE Num(0),
                              max_deposits |-> IF some THEN Num(Max(Range(deposit_values)))
                                               ELSE Num(0),
                              current_deposits |-> IF some
                                  THEN Num(deposit_values[Len(deposit_values)])
                                  ELSE Num(0)]]
    /\ UNCHANGED <<vault_snapshots, query, collectorVars>>

\* the body of a request to /api/available_vaults; a request without a JSON
\* object is read as {}
AvailableRequest(platforms, vault_type) ==
    [vault_type |-> vault_type, platforms |-> platforms]

\* the BINARY collation on the platforms of the model
PlatformRank(platform) == IF platform = "p1" THEN 1 ELSE 2

\* ORDER BY platform, vault_name of a set of (platform, vault_name) pairs
RECURSIVE ByPlatformAndName(_)
ByPlatformAndName(pairs) ==
    IF pairs = {} THEN <<>>
    ELSE LET first == CHOOSE x \in pairs : \A y \in pairs :
                          \/ PlatformRank(x[1]) < PlatformRank(y[1])
                          \/ /\ x[1] = y[1]
                             /\ NameRank(x[2]) <= NameRank(y[2])
         IN <<first>> \o ByPlatformAndName(pairs \ {first})

\* POST /api/available_vaults with body req
get_available_vaults(req) ==
    /\ query.pc = "idle"
    /\ reply.endpoint = "none"
    /\ LET results == ByPlatformAndName(
               {<<r.platform, r.vault_name>> :
                   r \in {r \in Range(vault_snapshots) :
                             /\ req.platforms # {} => r.platform \in req.platforms
                             /\ req.vault_type # "" => r.vault_type = req.vault_type}})
       IN reply' = [req |-> req, endpoint |-> "available_vaults", status |-> 200,
                    queried |-> TRUE,
                    body |-> [vaults |-> [i \in DOMAIN results |->
                                 [platform |-> results[i][1], vault_name |-> results[i][2],
                                  display_name |-> results[i]]]]]
    /\ UNCHANGED <<vault_snapshots, query, collectorVars>>

\* the endpoints that call data.get on request.json as it is
Unguarded == {"cumulative_deposits", "vault_history", "query", "stats"}

\* a POST whose JSON body is null: request.json is None. get_available_vaults
\* reads it as {}; in the other handlers data.get raises AttributeError and
\* the server answers 500
PostNull(endpoint) ==
    /\ endpoint \in Unguarded
    /\ query.pc = "idle"
    /\ reply.endpoint = "none"
    /\ reply' = [req |-> NoRequest, endpoint |-> endpoint, status |-> 500,
                 queried |-> FALSE, body |-> <<>>]
    /\ UNCHANGED <<vault_snapshots, query, collectorVars>>

(***************************************************************************)
(* Specifications of the collector.                                        *)
(***************************************************************************)
InitIdle ==
    /\ call = NoCall
    /\ runs = [r \in Runs |-> Off]
    /\ market_data = <<>>
    /\ db_lock = NoRun
    /\ clock = 1
    /\ commit_order = <<>>
    /\ vault_snapshots = <<>>
    /\ query = NoQuery
    /\ reply = NoReply

\* one call of get_hip3_markets
NextCall ==
    \/ /\ call.pc = "idle"
       /\ \E k \in DOMAIN dex_configs :
              \/ \E data \in Failures : CallGetMarkets(dex_configs[k], data)
              \/ \E n \in 0..MaxUniverse : \E cs \in FullContexts(n) :
                     CallGetMarkets(dex_configs[k], Response("ok", Universe(n), cs))
              \/ \E n \in 1..MaxUniverse : \E cs \in ShortContexts(n) :
                     CallGetMarkets(dex_configs[k], Response("ok", Universe(n), cs))
    \/ ReturnMarkets

SpecCall == InitIdle /\ [][NextCall]_vars

RunSteps(r) ==
    \/ SortAndReport(r)
    \/ NothingToInsert(r)
    \/ BeginInsert(r)
    \/ Execute(r)
    \/ InsertFails(r)
    \/ Commit(r)

\* one run of the collector
InitCollect ==
    /\ InitIdle!1 /\ InitIdle!3 /\ InitIdle!4 /\ InitIdle!5 /\ InitIdle!6
    /\ InitIdle!7 /\ InitIdle!8 /\ InitIdle!9
    /\ runs = [r \in Runs |-> IF r = 1 THEN Fresh ELSE Off]

NextCollect ==
    \/ \E r \in Runs, data \in CollectResponses : FetchSource(r, data)
    \/ \E r \in Runs : RunSteps(r)
    \/ Tick

SpecCollect == InitCollect /\ [][NextCollect]_vars

\* two runs of the collector, at any times
InitStore ==
    /\ InitIdle!1 /\ InitIdle!3 /\ InitIdle!4 /\ InitIdle!5 /\ InitIdle!6
    /\ InitIdle!7 /\ InitIdle!8 /\ InitIdle!9
    /\ runs = [r \in Runs |-> Fresh]

NextStore ==
    \/ \E r \in Runs, data \in StoreResponses : FetchSource(r, data)
    \/ \E r \in Runs : RunSteps(r)
    \/ Tick

SpecStore == InitStore /\ [][NextStore]_vars

(***************************************************************************)
(* Specifications of the query service.                                    *)
(***************************************************************************)
\* the vaults of the model
Vaults == {<<"p1", "a">>, <<"p1", "b">>, <<"p2", "a">>}

\* the window and the averages: rows old and new, any APY; requests with
\* and without days_back
NextQuery ==
    \/ \E t \in {1, 9}, v \in {<<"p1", "a">>, <<"p2", "a">>}, apy \in {Null, Num(0), Num(2)} :
           AppendSnapshot(t, v, "lending", Num(1), apy)
    \/ \E d \in {Null, Num(0), Num(7)} :
           query_vaults(Request({}, "", "apy", "desc", Null, Null, d, Null))

SpecQuery == InitIdle /\ [][NextQuery]_vars

\* the order: rows with any APY and deposit; requests with every sort_by
\* and sort_order
NextSort ==
    \/ \E v \in Vaults, dep \in {Null, Num(1), Num(2)}, apy \in {Null, Num(0), Num(2)} :
           AppendSnapshot(9, v, "lending", dep, apy)
    \/ \E by \in {"apy", "avg_apy", "deposits", "name"}, order \in {"asc", "desc"} :
           query_vaults(Request({}, "", by, order, Null, Null, Null, Null))

SpecSort == InitIdle /\ [][NextSort]_vars

\* the filters: rows of two vaults, old and new, of either type, with and
\* without a deposit and an APY; requests with each filter alone and with
\* all of them together, with and without days_back
FilterRows == {<<"lending", Num(0), Null>>, <<"lending", Num(2), Num(0)>>,
               <<"staking", Null, Num(2)>>}

\* platforms, vault_type, min_apy, max_apy, min_deposits of a request
Filters == {<<{}, "", Null, Null, Null>>, <<{"p1"}, "", Null, Null, Null>>,
            <<{}, "lending", Null, Null, Null>>, <<{}, "", Num(0), Null, Null>>,
            <<{}, "", Num(1), Null, Null>>, <<{}, "", Null, Num(1), Null>>,
            <<{}, "", Null, Null, Num(0)>>, <<{"p1"}, "lending", Num(0), Num(1), Num(1)>>}

NextFilter ==
    \/ \E t \in {1, 9}, v \in {<<"p1", "a">>, <<"p2", "a">>}, k \in FilterRows :
           AppendSnapshot(t, v, k[1], k[2], k[3])
    \/ \E f \in Filters, d \in {Null, Num(0), Num(7)} :
           query_vaults(Request(f[1], f[2], "apy", "desc", f[3], f[4], d, f[5]))

SpecFilter == InitIdle /\ [][NextFilter]_vars

\* the statistics: rows of three vaults on two platforms; a row is recent
\* with an APY or a deposit of 0, recent with neither, or old
StatsKinds == {<<9, "lending", Num(2), Num(0)>>, <<9, "lending", Num(0), Num(2)>>,
               <<9, "staking", Null, Null>>, <<1, "staking", Num(2), Num(2)>>}

NextStats ==
    \/ \E v \in Vaults, k \in StatsKinds : AppendSnapshot(k[1], v, k[2], k[3], k[4])
    \/ \E ps \in {{}, {"p1"}}, d \in {Null, Num(7)},
          f \in {<<"", Null>>, <<"lending", Num(0)>>} :
           get_stats(StatsRequest(ps, f[1], d, f[2]))

SpecStats == InitIdle /\ [][NextStats]_vars

\* the parameters: rows of two vaults that are 35 days, 9 days or 1 day old,
\* with or without a token; requests to every endpoint with each optional
\* parameter present or absent, and requests with a null body
ParamKinds == {<<"lending", "USDC", Num(2), Num(2)>>, <<"staking", NoToken, Null, Null>>}

DaysBackValues == {Missing, JNull, JNum(0), JNum(7)}

NextParams ==
    \/ \E t \in {-25, 1, 9}, v \in {<<"p1", "a">>, <<"p2", "a">>}, k \in ParamKinds :
           AppendTokenSnapshot(t, v, k[1], k[2], k[3], k[4])
    \/ \E platform \in {"", "p1"}, vault_name \in {"", "a"}, d \in DaysBackValues :
           get_vault_history(HistoryRequest(platform, vault_name, d))
    \/ \E ps \in {{}, {"p1"}}, ty \in {"", "lending"}, token \in {"", "USDC"},
          d \in DaysBackValues :
           get_cumulative_deposits(CumulativeRequest(ps, ty, token, d))
    \/ \E ps \in {{}, {"p1"}}, ty \in {"", "lending"} :
           get_available_vaults(AvailableRequest(ps, ty))
    \/ \E d \in {Null, Num(7)} : get_stats(StatsRequest({}, "", d, Null))
    \/ \E d \in {Null, Num(7)} :
           query_vaults(Request({}, "", "name", "asc", Null, Null, d, Null))
    \/ \E endpoint \in Unguarded : PostNull(endpoint)

SpecParams == InitIdle /\ [][NextParams]_vars

(***************************************************************************)
(* Properties of get_hip3_markets (SpecCall).                              *)
(***************************************************************************)
\* pair i of the response has a context that is an object
HasContext(data, i) == i \in DOMAIN data.asset_contexts /\ data.asset_contexts[i].obj

\* C1: get_hip3_markets returns a pair only if its parsed dayNtlVlm is > 0,
\* and the openInterestUSD of every returned row is the parsed openInterest
\* times the parsed markPx of the pair the row was made from.
C1_ActiveRowsOnly ==
    call.pc = "returned" =>
        /\ \A i \in DOMAIN call.data.universe :
               (\E j \in DOMAIN call.ret : call.ret[j].market = CoinName(call.data.universe[i]))
               => /\ HasContext(call.data, i)
                  /\ ParseFloat(DictGet(call.data.asset_contexts[i].dayNtlVlm)) > 0
        /\ \A j \in DOMAIN call.ret :
               /\ call.ret[j].dayNtlVlm > 0
               /\ \E i \in DOMAIN call.data.universe :
                      /\ HasContext(call.data, i)
                      /\ LET ctx == call.data.asset_contexts[i]
                         IN /\ call.ret[j].market = CoinName(call.data.universe[i])
                            /\ call.ret[j].dayNtlVlm = ParseFloat(DictGet(ctx.dayNtlVlm))
                            /\ call.ret[j].markPx = ParseFloat(DictGet(ctx.markPx))
                            /\ call.ret[j].openInterestUSD =
                                   ParseFloat(DictGet(ctx.openInterest))
                                   * ParseFloat(DictGet(ctx.markPx))

\* a call that returned one of two pairs, the other having no volume, with
\* an open interest of 3 contracts at a price of 2
C1_Witness ==
    /\ call.pc = "returned"
    /\ Len(call.data.universe) = 2
    /\ Len(call.ret) = 1
    /\ call.ret[1].openInterestUSD = 6
    /\ \E i \in 1..2 : /\ HasContext(call.data, i)
                       /\ ~RowRaises(call.data.asset_contexts[i])
                       /\ day_volume_float(call.data.asset_contexts[i]) <= 0

\* pair i parses and has volume
GoodPair(data, i) ==
    /\ HasContext(data, i)
    /\ ~RowRaises(data.asset_contexts[i])
    /\ day_volume_float(data.asset_contexts[i]) > 0

\* C3: a malformed pair discards only its own row: every pair of the
\* response whose fields parse and whose volume is > 0 is returned,
\* whatever is wrong with another pair (a non-numeric string, a wrong type,
\* a context that is no object, a missing context).
C3_RowIsolation ==
    (call.pc \in {"returned", "raised"} /\ call.data.kind = "ok") =>
        \A i \in DOMAIN call.data.universe :
            GoodPair(call.data, i) =>
                \E j \in DOMAIN call.ret :
                    call.ret[j] = MarketRow(call.dex, call.quote, call.data.universe[i],
                                            call.data.asset_contexts[i])

(***************************************************************************)
(* Properties of get_all_hip3_markets_combined (SpecCollect).              *)
(***************************************************************************)
\* the fetch of a source fails: the HTTP call, the status, or the shape of
\* the JSON (a context missing or no object)
FetchFailed(data) ==
    \/ data.kind # "ok"
    \/ \E i \in DOMAIN data.universe : ~HasContext(data, i)

\* the rows of a response that the filter retains, for config k
Retained(k, data) ==
    { MarketRow(dex_configs[k].name, dex_configs[k].quote, data.universe[i],
                data.asset_contexts[i]) : i \in {n \in DOMAIN data.universe : GoodPair(data, n)} }

RECURSIVE Encounter(_, _)
Encounter(fetched, k) ==
    IF k > Len(fetched) THEN <<>>
    ELSE LET data == fetched[k]
             kept == IF FetchFailed(data) THEN <<>>
                     ELSE [i \in DOMAIN data.universe |->
                              MarketRow(dex_configs[k].name, dex_configs[k].quote,
                                        data.universe[i], data.asset_contexts[i])]
         IN SelectSeq(kept, LAMBDA m : m.dayNtlVlm > 0) \o Encounter(fetched, k + 1)

\* C6: the combined list is in descending order of dayNtlVlm, rows of equal
\* volume keep the order in which they were met, and the subtotals of the
\* sources add up to the overall totals, which are those of the whole list.
C6_SortedAndTotals ==
    \A r \in Runs :
        runs[r].pc \in {"collected", "execute", "done", "failed"} =>
            LET ms == runs[r].all_markets
                rep == runs[r].report
                met == Encounter(runs[r].fetched, 1)
                sub == rep.by_dex
            IN /\ \A i, j \in DOMAIN ms : i < j => ms[i].dayNtlVlm >= ms[j].dayNtlVlm
               /\ Len(ms) = Len(met)
               /\ \A v \in {met[i].dayNtlVlm : i \in DOMAIN met} :
                      SelectSeq(ms, LAMBDA m : m.dayNtlVlm = v)
                      = SelectSeq(met, LAMBDA m : m.dayNtlVlm = v)
               /\ rep.total_markets = Len(ms)
               /\ rep.total_volume = SumOf([i \in DOMAIN ms |-> ms[i].dayNtlVlm])
               /\ rep.total_oi = SumOf([i \in DOMAIN ms |-> ms[i].openInterestUSD])
               /\ SumOf([k \in DOMAIN sub |-> sub[k].total_volume]) = rep.total_volume
               /\ SumOf([k \in DOMAIN sub |-> sub[k].total_oi]) = rep.total_oi
               /\ SumOf([k \in DOMAIN sub |-> sub[k].active_markets]) = rep.total_markets

\* a list of three rows from two sources where the sort moved a row of the
\* second source to the front and left two rows of equal volume in the
\* order they were met
C6_Witness ==
    \E r \in Runs :
        /\ runs[r].pc = "collected"
        /\ Len(runs[r].all_markets) = 3
        /\ runs[r].all_markets[1].dex = "flx"
        /\ runs[r].all_markets[2].dex = "xyz"
        /\ runs[r].all_markets[3].dex = "flx"
        /\ runs[r].all_markets[2].dayNtlVlm = runs[r].all_markets[3].dayNtlVlm
        /\ runs[r].report.by_dex[1].total_volume = 1
        /\ runs[r].report.by_dex[2].total_volume = 3
        /\ runs[r].report.total_volume = 4

(***************************************************************************)
(* Properties of insert_market_data and of the store (SpecStore).          *)
(***************************************************************************)
\* the rows of a batch as the table holds them when the table had n rows
\* before: consecutive ids, one timestamp
Stamped(ms, timestamp, n) == [i \in DOMAIN ms |-> StoreRow(n + i, timestamp, ms[i])]

\* C4: insert_market_data is transactional per batch. Every change of the
\* table adds all the rows of the batch of one process, in one step, all
\* with the one timestamp that process read; a process whose insert fails
\* part-way changes nothing.
C4_BatchAtomic ==
    [][ market_data' # market_data =>
            \E r \in Runs :
                /\ runs[r].pc = "execute"
                /\ runs'[r].pc = "done"
                /\ runs[r].all_markets # <<>>
                /\ market_data' = market_data \o Stamped(runs[r].all_markets,
                                                         runs[r].timestamp,
                                                         Len(market_data)) ]_vars

\* one process committed a batch of at least two rows, the other failed
\* after its first INSERT, later on the clock: the table holds the batch of
\* the first and nothing of the second
C4_Witness ==
    \E r, q \in Runs :
        /\ runs[r].pc = "done"
        /\ Len(runs[r].all_markets) >= 2
        /\ runs[q].pc = "failed"
        /\ runs[q].cursor >= 1
        /\ runs[q].timestamp > runs[r].timestamp
        /\ market_data = Stamped(runs[r].all_markets, runs[r].timestamp, 0)

IsPrefix(s, t) == Len(s) <= Len(t) /\ SubSeq(t, 1, Len(s)) = s

\* the table after the batches of the processes in order were committed
RECURSIVE Batches(_, _)
Batches(order, rs) ==
    IF order = <<>> THEN <<>>
    ELSE LET before == Batches(SubSeq(order, 1, Len(order) - 1), rs)
             r == order[Len(order)]
         IN before \o Stamped(rs[r].all_markets, rs[r].timestamp, Len(before))

\* the scenario of two sources with three markets (one without volume) and
\* one market, the third source failing
Scenario == <<ThreeMarkets, OneMarket, HttpError>>

\* C5: the store is append-only across runs. The table holds one row per
\* retained entry of each completed run and no other row, every row has
\* volume_24h > 0, a run that retains nothing writes nothing, a run of the
\* scenario writes exactly 3 rows, and no step changes or removes a row that
\* was written.
C5_AppendOnly ==
    /\ [] /\ market_data = Batches(commit_order, runs)
          /\ \A i \in DOMAIN market_data : market_data[i].volume_24h > 0
          /\ \A r \in Runs :
                 /\ Cardinality({i \in DOMAIN commit_order : commit_order[i] = r})
                        = IF runs[r].pc = "done" /\ runs[r].all_markets # <<>> THEN 1 ELSE 0
                 /\ (runs[r].pc = "done" /\ runs[r].fetched = Scenario)
                        => /\ Len(runs[r].all_markets) = 3
                           /\ commit_order = <<r>> => Len(market_data) = 3
    /\ [][IsPrefix(market_data, market_data')]_vars

\* both processes ran the scenario at the same time of the clock: the table
\* holds the 3 rows twice
C5_Witness ==
    /\ \A r \in Runs : runs[r].pc = "done" /\ runs[r].fetched = Scenario
    /\ runs[1].timestamp = runs[2].timestamp
    /\ Len(market_data) = 6
    /\ \A i \in 1..3 : market_data[i + 3] = [market_data[i] EXCEPT !.id = i + 3]

\* C14: the value insert_market_data returns, which __main__ reports as the
\* number of market records inserted, is the number of rows of the batch it
\* was given, for every batch of one row or more.
C14_ReturnsBatchSize ==
    \A r \in Runs :
        (runs[r].pc = "done" /\ runs[r].all_markets # <<>>) =>
            runs[r].rows_inserted = Len(runs[r].all_markets)

(***************************************************************************)
(* Properties of query_vaults (SpecQuery, SpecSort).                       *)
(***************************************************************************)
\* the snapshots of the vault of a returned row
SnapshotsOf(row) == {r \in Range(vault_snapshots) : SameVault(r, row)}

\* the returned row is snapshot r, as far as it shows columns of it
ShowsSnapshot(row, r) ==
    /\ SameVault(r, row)
    /\ row.vault_type = r.vault_type
    /\ row.deposit_amount = r.deposit_amount
    /\ row.latest_apy = r.apy_percentage
    /\ row.timestamp = r.timestamp

\* every vault has at most one row of the result, and that row is the
\* snapshot of greatest id among those of the vault that are in window W
LatestWithin(W(_)) ==
    /\ \A i, j \in DOMAIN query.vaults :
           i # j => ~SameVault(query.vaults[i], query.vaults[j])
    /\ \A i \in DOMAIN query.vaults :
           LET inw == {r \in SnapshotsOf(query.vaults[i]) : W(r)}
           IN /\ inw # {}
              /\ \E r \in inw : /\ \A q \in inw : q.id <= r.id
                                /\ ShowsSnapshot(query.vaults[i], r)

\* the window as the claim has it: all snapshots when days_back is absent,
\* else those of the last days_back days
StatedWindow(r) ==
    query.req.days_back.null \/ r.timestamp >= Now - query.req.days_back.num

\* the window as query_vaults has it: a days_back of 0 counts as absent
EffectiveWindow(r) ==
    \/ query.req.days_back.null
    \/ query.req.days_back.num = 0
    \/ r.timestamp >= Now - query.req.days_back.num

\* C7, as stated: every (platform, vault_name) pair has at most one row in
\* the result of query_vaults, namely the snapshot of maximum id among the
\* pair's snapshots inside the days_back window (all snapshots when
\* days_back is absent); a pair without a snapshot in the window is absent.
C7_LatestInStatedWindow == query.pc = "answered" => LatestWithin(StatedWindow)

\* C7, amended: the same, where a days_back of 0 is treated like an absent
\* days_back: the window is then all snapshots.
C7_LatestInWindow == query.pc = "answered" => LatestWithin(EffectiveWindow)

\* days_back = 7: one vault has two snapshots in the window, the later one
\* is returned; the other vault has its only snapshot outside and is absent
C7_Witness ==
    /\ query.pc = "answered"
    /\ query.req.days_back = Num(7)
    /\ Len(vault_snapshots) = 3
    /\ Len(query.vaults) = 1
    /\ \E i, j, k \in DOMAIN vault_snapshots :
           /\ i < j
           /\ SameVault(vault_snapshots[i], vault_snapshots[j])
           /\ vault_snapshots[i].timestamp = 9 /\ vault_snapshots[j].timestamp = 9
           /\ vault_snapshots[i].apy_percentage # vault_snapshots[j].apy_percentage
           /\ ShowsSnapshot(query.vaults[1], vault_snapshots[j])
           /\ ~SameVault(vault_snapshots[k], vault_snapshots[i])
           /\ vault_snapshots[k].timestamp = 1

\* C8: the average_apy of every returned vault is the arithmetic mean of the
\* non-null apy_percentage of the vault's snapshots in the window (the one
\* used for the latest row); with no such value it is null, not 0.
C8_AverageInWindow ==
    query.pc = "answered" =>
        \A i \in DOMAIN query.vaults :
            LET row == query.vaults[i]
                samples == {r \in SnapshotsOf(row) :
                                EffectiveWindow(r) /\ ~r.apy_percentage.null}
                total == SumOf([k \in DOMAIN vault_snapshots |->
                                   IF vault_snapshots[k] \in samples
                                   THEN vault_snapshots[k].apy_percentage.num ELSE 0])
            IN IF samples = {} THEN row.average_apy.null
               ELSE /\ ~row.average_apy.null
                    /\ row.average_apy.den # 0
                    /\ row.average_apy.num * Cardinality(samples)
                           = total * row.average_apy.den

\* days_back = 7: a vault with an APY of 2 in the window and one of 0
\* outside has an average of 2, and a vault without a known APY has none
C8_Witness ==
    /\ query.pc = "answered"
    /\ query.req.days_back = Num(7)
    /\ Len(query.vaults) = 2
    /\ \E i, j \in 1..2 :
           /\ query.vaults[i].average_apy = [null |-> FALSE, num |-> 2, den |-> 1]
           /\ \E r \in SnapshotsOf(query.vaults[i]) :
                  r.timestamp = 1 /\ r.apy_percentage = Num(0)
           /\ query.vaults[j].average_apy.null

\* the sort key of a returned row
SortKeyOf(row) ==
    IF query.req.sort_by = "apy" THEN row.latest_apy
    ELSE IF query.req.sort_by = "avg_apy" THEN row.average_apy
    ELSE row.deposit_amount

\* C9: in the result of query_vaults the rows whose sort key (latest_apy,
\* average_apy or deposit_amount) is null come after every row whose sort
\* key is known, for sort_order asc and for sort_order desc.
C9_NullKeysLast ==
    (query.pc = "answered" /\ query.req.sort_by \in {"apy", "avg_apy", "deposits"}) =>
        \A i, j \in DOMAIN query.vaults :
            (SortKeyOf(query.vaults[i]).null /\ ~SortKeyOf(query.vaults[j]).null) => j < i

\* C10: for every sort_by and sort_order the rows are in the order of the
\* requested key in the requested direction (names descending for sort_by =
\* name with sort_order = desc).
C10_RequestedOrder ==
    query.pc = "answered" =>
        \A i, j \in DOMAIN query.vaults :
            i < j =>
                LET a == query.vaults[i]
                    b == query.vaults[j]
                IN IF query.req.sort_by = "name"
                   THEN IF query.req.sort_order = "asc"
                        THEN NameRank(a.vault_name) <= NameRank(b.vault_name)
                        ELSE NameRank(a.vault_name) >= NameRank(b.vault_name)
                   ELSE (~SortKeyOf(a).null /\ ~SortKeyOf(b).null) =>
                        IF query.req.sort_order = "asc"
                        THEN ~NumLess(SortKeyOf(b), SortKeyOf(a))
                        ELSE ~NumLess(SortKeyOf(a), SortKeyOf(b))

\* snapshot r passes every filter the request supplies
Satisfies(r, req) ==
    /\ req.platforms # {} => r.platform \in req.platforms
    /\ req.vault_type # "" => r.vault_type = req.vault_type
    /\ ~req.min_apy.null =>
           ~r.apy_percentage.null /\ r.apy_percentage.num >= req.min_apy.num
    /\ ~req.max_apy.null =>
           ~r.apy_percentage.null /\ r.apy_percentage.num <= req.max_apy.num
    /\ ~req.min_deposits.null =>
           ~r.deposit_amount.null /\ r.deposit_amount.num >= req.min_deposits.num

\* the vaults whose latest snapshot in window W passes every supplied filter
Matching(W(_)) ==
    { <<r.platform, r.vault_name>> :
        r \in { r \in Range(vault_snapshots) :
                  /\ W(r)
                  /\ \A q \in SnapshotsOf(r) : W(q) => q.id <= r.id
                  /\ Satisfies(r, query.req) } }

\* the result holds the vaults matching in window W, all of them and no
\* other, and each row of it is in the window and passes the filters
ExactlyMatching(W(_)) ==
    /\ {<<row.platform, row.vault_name>> : row \in Range(query.vaults)} = Matching(W)
    /\ \A i \in DOMAIN query.vaults :
           \E r \in SnapshotsOf(query.vaults[i]) :
               /\ ShowsSnapshot(query.vaults[i], r)
               /\ W(r)
               /\ Satisfies(r, query.req)

\* C11, as stated: query_vaults returns exactly the vaults whose latest
\* snapshot in the days_back window passes every supplied filter at once
\* (platform set, vault type, APY bounds, deposit minimum, timestamp within
\* days_back); none returned violates a supplied condition, none that passes
\* is omitted, and a bound of 0 is applied.
C11_ExactlyTheMatchingStated == query.pc = "answered" => ExactlyMatching(StatedWindow)

\* C11, amended: the same, where a days_back of 0 is treated like an absent
\* days_back and restricts nothing.
C11_ExactlyTheMatching == query.pc = "answered" => ExactlyMatching(EffectiveWindow)

\* every filter is supplied, min_apy as 0: the vault of p1 passes with its
\* latest snapshot and is the only row, while p2 has a recent snapshot that
\* is latest and fails, and p1 has an older one
C11_Witness ==
    /\ query.pc = "answered"
    /\ query.req.platforms = {"p1"} /\ query.req.vault_type = "lending"
    /\ query.req.min_apy = Num(0) /\ query.req.max_apy = Num(1)
    /\ query.req.min_deposits = Num(1) /\ query.req.days_back = Num(7)
    /\ Len(vault_snapshots) = 3
    /\ Len(query.vaults) = 1
    /\ query.vaults[1].platform = "p1"
    /\ query.vaults[1].latest_apy = Num(0)
    /\ \E i, j, k \in DOMAIN vault_snapshots :
           /\ vault_snapshots[i].platform = "p1" /\ vault_snapshots[i].timestamp = 1
           /\ vault_snapshots[j].platform = "p1" /\ vault_snapshots[j].timestamp = 9
           /\ vault_snapshots[k].platform = "p2" /\ vault_snapshots[k].timestamp = 9
           /\ vault_snapshots[k].apy_percentage.null

(***************************************************************************)
(* Properties of get_stats (SpecStats).                                    *)
(***************************************************************************)
\* the entry g of a breakdown is the overall aggregates taken over members:
\* the count of the rows, the means and the sum over the rows where the
\* value is known, 0 where none is
GroupAgrees(g, members) ==
    /\ g.count = Cardinality(members)
    /\ FracEq(g.avg_latest_apy, MeanOf(Known(members, "latest_apy"), "latest_apy"))
    /\ FracEq(g.avg_period_apy, MeanOf(Known(members, "average_apy"), "average_apy"))
    /\ FracEq(g.total_tvl, TotalOf(Known(members, "deposit_amount"), "deposit_amount"))

RECURSIVE CountSum(_, _)
CountSum(groups, keys) ==
    IF keys = {} THEN 0
    ELSE LET k == CHOOSE k \in keys : TRUE
         IN groups[k].count + CountSum(groups, keys \ {k})

\* C12: in the reply of get_stats every group of by_platform and of by_type
\* has the aggregates of the overall definitions restricted to the rows of
\* the group: count, mean of the latest APY, mean of the average APY and sum
\* of the deposits range over the rows where the value is known, a known 0
\* included; an aggregate over no known value is 0; the counts of the groups
\* add up to total_vaults.
C12_GroupAggregates ==
    reply.endpoint = "stats" =>
        LET rows == StatsRows(vault_snapshots, reply.req)
            by_platform == reply.body.by_platform
            by_type == reply.body.by_type
        IN /\ DOMAIN by_platform = {r.platform : r \in rows}
           /\ \A p \in DOMAIN by_platform :
                  GroupAgrees(by_platform[p], {r \in rows : r.platform = p})
           /\ DOMAIN by_type = {r.vault_type : r \in rows}
           /\ \A ty \in DOMAIN by_type :
                  GroupAgrees(by_type[ty], {r \in rows : r.vault_type = ty})
           /\ CountSum(by_platform, DOMAIN by_platform) = reply.body.overall.total_vaults
           /\ CountSum(by_type, DOMAIN by_type) = reply.body.overall.total_vaults

(***************************************************************************)
(* Properties of the parameter handling of the service (SpecParams).       *)
(***************************************************************************)
\* the vaults that have a snapshot
AllVaults == {<<r.platform, r.vault_name>> : r \in Range(vault_snapshots)}

\* snapshot r passes the platform, type and token filters that req supplies
PassesSupplied(r, req) ==
    /\ req.platforms # {} => r.platform \in req.platforms
    /\ req.vault_type # "" => r.vault_type = req.vault_type
    /\ ("deposit_token" \in DOMAIN req /\ req.deposit_token # "")
           => r.deposit_token = req.deposit_token

\* vault_history: without a platform or a vault_name the reply is 400 with a
\* message and no query runs; else the reply is 200, and without days_back
\* the history has every snapshot of the vault
HistoryHandled ==
    reply.endpoint = "vault_history" =>
        /\ reply.status \in {200, 400}
        /\ IF reply.req.platform = "" \/ reply.req.vault_name = ""
           THEN /\ reply.status = 400
                /\ ~reply.queried
                /\ reply.body.error # ""
           ELSE /\ reply.status = 200
                /\ reply.req.days_back = Missing =>
                       LET all == {r \in Range(vault_snapshots) :
                                      /\ r.platform = reply.req.platform
                                      /\ r.vault_name = reply.req.vault_name}
                       IN /\ Len(reply.body.history) = Cardinality(all)
                          /\ \A r \in all : HistoryEntry(r) \in Range(reply.body.history)

\* cumulative_deposits: the reply is 200, and without days_back every
\* timestamp of a snapshot that passes the supplied filters has its total
CumulativeHandled ==
    reply.endpoint = "cumulative_deposits" =>
        /\ reply.status = 200
        /\ reply.req.days_back = Missing =>
               LET all == {r \in Range(vault_snapshots) : PassesSupplied(r, reply.req)}
               IN /\ {h.timestamp : h \in Range(reply.body.history)}
                         = {r.timestamp : r \in all}
                  /\ \A h \in Range(reply.body.history) :
                         h.total_deposits = SumDeposits({r \in all : r.timestamp = h.timestamp})

\* available_vaults, stats and query: the reply is 200; the vaults listed
\* are those with a snapshot that passes the supplied filters, and without
\* any filter stats and query cover every vault
OthersHandled ==
    /\ reply.endpoint = "available_vaults" =>
           /\ reply.status = 200
           /\ {<<v.platform, v.vault_name>> : v \in Range(reply.body.vaults)}
                  = {<<r.platform, r.vault_name>> :
                        r \in {r \in Range(vault_snapshots) : PassesSupplied(r, reply.req)}}
    /\ reply.endpoint = "stats" =>
           /\ reply.status = 200
           /\ reply.req = NoRequest =>
                  reply.body.overall.total_vaults = Cardinality(AllVaults)
    /\ reply.endpoint = "query" => reply.status = 200
    /\ (query.pc = "answered" /\ query.req.days_back.null) =>
           {<<row.platform, row.vault_name>> : row \in Range(query.vaults)} = AllVaults

\* C13: get_vault_history answers 400 with an error message, and runs no
\* query, whenever platform or vault_name is missing or empty; on every
\* other endpoint, and for days_back on vault_history, an absent optional
\* filter means that no filter is applied: the result is that of the
\* unfiltered query over all snapshots, and the request does not fail.
C13_ParameterHandling == HistoryHandled /\ CumulativeHandled /\ OthersHandled

====
